---- MODULE Spec2Model ----
(***************************************************************************)
(* Model of examples/go/tag-vm-config: the Handle pipeline of              *)
(* handler/handler.go (validate, classify, load config, vsConnect, fetch,  *)
(* selectTag, AttachTag), the mutex-guarded shared vSphere client, and the *)
(* once-guarded signal listener that logs out (client.go).                 *)
(***************************************************************************)
EXTENDS Integers, Sequences, FiniteSets, TLC

\* ------------------------------------------------------------------ bounds
NumInv == 2        \* invocations of Handle the transport dispatches
MaxCpuCount == 6   \* largest NumCPU a fetched VM reports
MaxMemExp == 25    \* fetched VMs report MemoryMB below 2^(MaxMemExp + 1)

\* ------------------------------------------------------- program constants
SigChCap == 2      \* make(chan os.Signal, 2)
MaxCpu == 4        \* newNum := 4
MaxExp == 23       \* maxExp := 23
StatusOK == 200
StatusInternalServerError == 500

Procs == 1..NumInv

VARIABLES
    pc,          \* position of each invocation inside Handle
    req,         \* req.Body of each invocation, as the JSON document it holds
    cfg,         \* cfg returned by loadTomlCfg, per invocation
    clt,         \* newClient's local clt under construction, per invocation
    seen,        \* the value of client when vsConnect returned nil, per invocation
    moVM,        \* moVM returned by moVirtualMachine, per invocation
    tag,         \* (catID, tagID) returned by selectTag, per invocation
    tier,        \* the tag name selectTag looked for, per invocation
    resp,        \* handler.Response returned, per invocation
    calls,       \* collaborator calls each invocation has made, in order
    lock,        \* sync.Mutex: 0 when free, else the holder
    client,      \* the global *vsClient
    once,        \* sync.Once: TRUE once its function has been run
    listener,    \* position of the handleSignal goroutine
    sigCh,       \* number of signals buffered in sigCh
    killed,      \* the process died from a signal nobody was notified of
    auths,       \* authentication sequences (newClient calls) started
    installs,    \* assignments client = c performed
    logouts      \* logout calls made by handleSignal, with their outcome

vars == <<pc, req, cfg, clt, seen, moVM, tag, tier, resp, calls, lock, client, once,
          listener, sigCh, killed, auths, installs, logouts>>

\* ------------------------------------------------------------------ values
NoVm == [present |-> FALSE, Type |-> "", Value |-> ""]
VmRefs == {NoVm,
           [present |-> TRUE, Type |-> "VirtualMachine", Value |-> ""],
           [present |-> TRUE, Type |-> "VirtualMachine", Value |-> "vm-42"]}
AlarmNames == {"", "VM CPU Usage", "VM Memory Usage", "VM Disk Usage", "vm cpu usage"}
Levels == {"", "red", "green", "Red"}

\* cloudEvent: Data.Vm (nil when absent), Data.Alarm.Name, Data.To
Events == [Vm : VmRefs, Name : AlarmNames, To : Levels]
ZeroEvent == [Vm |-> NoVm, Name |-> "", To |-> ""]

\* A request body: a JSON document of the cloudEvent shape, or not JSON at all.
NoBody == [json |-> FALSE, event |-> ZeroEvent]
AllBodies == [json : {TRUE}, event : Events] \cup {NoBody}

\* One body of each kind Handle tells apart, for the runs of several invocations.
ValidVm == [present |-> TRUE, Type |-> "VirtualMachine", Value |-> "vm-42"]
Bodies ==
    {NoBody,
     [json |-> TRUE, event |-> [Vm |-> NoVm, Name |-> "VM CPU Usage", To |-> "red"]],
     [json |-> TRUE, event |-> [Vm |-> ValidVm, Name |-> "VM CPU Usage", To |-> "green"]],
     [json |-> TRUE, event |-> [Vm |-> ValidVm, Name |-> "VM CPU Usage", To |-> "red"]]}

\* vcConfig, and the file it is read from.
NoCfg == [Server |-> "", User |-> "", Password |-> ""]
Cfgs == [Server : {"", "vc"}, User : {"", "admin"}, Password : {"", "pw1", "pw2"}]
GoodCfgs == {c \in Cfgs : c.Server # "" /\ c.User # "" /\ c.Password # ""}
AllSecretFiles ==
    {[exists |-> FALSE, toml |-> FALSE, cfg |-> NoCfg],
     [exists |-> TRUE, toml |-> FALSE, cfg |-> NoCfg]}
    \cup [exists : {TRUE}, toml : {TRUE}, cfg : Cfgs]

SecretFiles == AllSecretFiles

\* vsClient: the three fields newClient fills in, and who built it from what.
NoClient == [govmomi |-> FALSE, rest |-> FALSE, tagMgr |-> FALSE, by |-> 0, cfg |-> NoCfg]

\* mo.VirtualMachine: Config is nil unless Retrieve filled it in; err tells that
\* Retrieve returned an error, which moVirtualMachine logs before it returns moVM.
NoConfigVM == [hasConfig |-> FALSE, NumCPU |-> 0, MemoryMB |-> 0, err |-> FALSE]
RetrieveFailedVM == [hasConfig |-> FALSE, NumCPU |-> 0, MemoryMB |-> 0, err |-> TRUE]
HwConfig(numCPU, memoryMB) ==
    [hasConfig |-> TRUE, NumCPU |-> numCPU, MemoryMB |-> memoryMB, err |-> FALSE]
AllHwConfigs == {HwConfig(2, 4096), HwConfig(4, 8388608), HwConfig(1, 1024),
                 NoConfigVM, RetrieveFailedVM}
HwConfigs == {HwConfig(2, 4096), NoConfigVM}

NoTag == [catID |-> "", tagID |-> ""]
NoResp == [status |-> 0, stage |-> "", cause |-> ""]

\* ------------------------------------------------------------ pure helpers
Digit(d) ==
    CASE d = 0 -> "0" [] d = 1 -> "1" [] d = 2 -> "2" [] d = 3 -> "3"
      [] d = 4 -> "4" [] d = 5 -> "5" [] d = 6 -> "6" [] d = 7 -> "7"
      [] d = 8 -> "8" [] d = 9 -> "9"

RECURSIVE ItoaNat(_)
ItoaNat(n) == IF n < 10 THEN Digit(n) ELSE ItoaNat(n \div 10) \o Digit(n % 10)

\* strconv.Itoa
Itoa(n) == IF n < 0 THEN "-" \o ItoaNat(0 - n) ELSE ItoaNat(n)

RECURSIVE Pow2(_)
Pow2(k) == IF k = 0 THEN 1 ELSE 2 * Pow2(k - 1)

\* int(math.Log10(mem) / math.Log10(2)) for mem >= 1. In float64 the quotient of
\* a power of two 2^k is k exactly and that of other int32 values keeps clear of
\* the next integer, so the truncation is the floor of the binary logarithm.
RECURSIVE Log2Floor(_)
Log2Floor(m) == IF m < 2 THEN 0 ELSE 1 + Log2Floor(m \div 2)

\* isValidEvent requiring both alarm fields to be empty before it objects
isValidEvent_BothEmpty(event) ==
    IF ~event.Vm.present \/ event.Vm.Value = ""
    THEN "empty VM managed object reference"
    ELSE IF event.Name = "" /\ event.To = ""
         THEN "insufficent alarm infomration"
         ELSE ""

isValidEvent(event) ==
    IF ~event.Vm.present \/ event.Vm.Value = ""
    THEN "empty VM managed object reference"
    ELSE IF event.Name = "" \/ event.To = ""
         THEN "insufficent alarm infomration"
         ELSE ""

\* parseCloudEvent: json.Unmarshal, then isValidEvent; the zero event on error.
parseCloudEvent(body) ==
    IF ~body.json
    THEN [err |-> "unmarshalling json", event |-> ZeroEvent]
    ELSE IF isValidEvent(body.event) # ""
         THEN [err |-> isValidEvent(body.event), event |-> ZeroEvent]
         ELSE [err |-> "", event |-> body.event]

\* isStorageInAlarm without the test of the alarm name
isStorageInAlarm_AnyName(event) == event.To = "red"

\* isStorageInAlarm with the CPU alarm forgotten
isStorageInAlarm_MemOnly(event) == event.To = "red" /\ event.Name = "VM Memory Usage"

isStorageInAlarm(event) ==
    event.To = "red" /\ (event.Name = "VM Memory Usage" \/ event.Name = "VM CPU Usage")

\* validateConfig without the test of the password
validateConfig_NoPassword(c) ==
    IF c.Server = "" \/ c.User = ""
    THEN "required field(s) missing in config"
    ELSE ""

validateConfig(c) ==
    IF c.Server = "" \/ c.User = "" \/ c.Password = ""
    THEN "required field(s) missing in config"
    ELSE ""

loadTomlCfg(file) ==
    IF ~file.exists THEN [err |-> "loading vcconfig.toml", cfg |-> NoCfg]
    ELSE IF ~file.toml THEN [err |-> "unmarshalling vcconfig.toml", cfg |-> NoCfg]
    ELSE IF validateConfig(file.cfg) # "" THEN [err |-> validateConfig(file.cfg), cfg |-> NoCfg]
    ELSE [err |-> "", cfg |-> file.cfg]

\* catName with the memory alarm forgotten
catName_CpuOnly(alarmName) ==
    IF alarmName = "VM CPU Usage" THEN "config.hardware.numCPU" ELSE ""

catName(alarmName) ==
    CASE alarmName = "VM CPU Usage" -> "config.hardware.numCPU"
      [] alarmName = "VM Memory Usage" -> "config.hardware.memoryMB"
      [] OTHER -> ""

\* incCpuVal without the maximum of 4
incCpuVal_NoCap(numCPU) == Itoa(numCPU + 1)

\* incMemVal without the maximum exponent of 23
incMemVal_NoCap(mem) == Itoa(Pow2(Log2Floor(mem) + 1))

incCpuVal(numCPU) ==
    IF numCPU + 1 < MaxCpu THEN Itoa(numCPU + 1) ELSE Itoa(MaxCpu)

incMemVal(mem) ==
    IF Log2Floor(mem) + 1 < MaxExp THEN Itoa(Pow2(Log2Floor(mem) + 1)) ELSE Itoa(Pow2(MaxExp))

RECURSIVE findCatAndTagID(_, _)
findCatAndTagID(ts, tn) ==
    IF ts = <<>> THEN NoTag
    ELSE IF Head(ts).Name = tn
         THEN [catID |-> Head(ts).CategoryID, tagID |-> Head(ts).ID]
         ELSE findCatAndTagID(Tail(ts), tn)

\* ------------------------------------------------- the label taxonomy
Label(cat, name) ==
    [Name |-> name, ID |-> "urn:tag:" \o name, CategoryID |-> "urn:category:" \o cat]

LabelNames(cat) ==
    CASE cat = "config.hardware.numCPU" -> <<"3", "4">>
      [] cat = "config.hardware.memoryMB" -> <<"8192", "8388608">>
      [] OTHER -> <<"3", "8192">>

\* The label lists GetTagsForCategory may return for a category.
TagLists(cat) ==
    {<<>>,
     <<Label(cat, LabelNames(cat)[1])>>,
     <<Label(cat, LabelNames(cat)[2])>>,
     <<Label(cat, LabelNames(cat)[1]), Label(cat, LabelNames(cat)[2])>>}

\* ------------------------------------------------------------------ Init
Init ==
    /\ pc = [i \in Procs |-> "idle"]
    /\ req = [i \in Procs |-> NoBody]
    /\ cfg = [i \in Procs |-> NoCfg]
    /\ clt = [i \in Procs |-> NoClient]
    /\ seen = [i \in Procs |-> NoClient]
    /\ moVM = [i \in Procs |-> NoConfigVM]
    /\ tag = [i \in Procs |-> NoTag]
    /\ tier = [i \in Procs |-> ""]
    /\ resp = [i \in Procs |-> NoResp]
    /\ calls = [i \in Procs |-> <<>>]
    /\ lock = 0
    /\ client = NoClient
    /\ once = FALSE
    /\ listener = "none"
    /\ sigCh = 0
    /\ killed = FALSE
    /\ auths = 0
    /\ installs = 0
    /\ logouts = <<>>

locals == <<cfg, clt, seen, moVM, tag, tier>>
shared == <<lock, client, once, auths, installs>>
sigvars == <<listener, sigCh, killed, logouts>>

\* return of Handle with a response: the status code, and in the body the stage
\* Handle names and the error it wraps
Return(i, status, stage, cause) ==
    /\ pc' = [pc EXCEPT ![i] = "done"]
    /\ resp' = [resp EXCEPT ![i] = [status |-> status, stage |-> stage, cause |-> cause]]

Goto(i, where) ==
    /\ pc' = [pc EXCEPT ![i] = where]
    /\ resp' = resp

Call(i, what) == calls' = [calls EXCEPT ![i] = Append(@, what)]

\* ------------------------------------------------------- Handle, by step
\* Handle up to the load of the config: parseCloudEvent and isStorageInAlarm.
HandleParse(i, body) ==
    /\ ~killed
    /\ pc[i] = "idle"
    /\ req' = [req EXCEPT ![i] = body]
    /\ IF parseCloudEvent(body).err # ""
       THEN Return(i, StatusInternalServerError, "parsing cloud event data",
                   parseCloudEvent(body).err)
       ELSE IF ~isStorageInAlarm(parseCloudEvent(body).event)
            THEN Return(i, StatusOK, "Alert not for CPU/Memory in red, nothing to do.", "")
            ELSE Goto(i, "loadcfg")
    /\ UNCHANGED <<locals, shared, sigvars, calls>>

cloudEvt(i) == parseCloudEvent(req[i]).event

\* Handle: loadTomlCfg(cfgPath), on the file as it is at that moment
HandleLoadCfg(i, file) ==
    /\ ~killed
    /\ pc[i] = "loadcfg"
    /\ Call(i, "loadTomlCfg")
    /\ IF loadTomlCfg(file).err # ""
       THEN /\ Return(i, StatusInternalServerError, "loading of vcconfig",
                        loadTomlCfg(file).err)
            /\ cfg' = cfg
       ELSE /\ Goto(i, "vsConnect")
            /\ cfg' = [cfg EXCEPT ![i] = loadTomlCfg(file).cfg]
    /\ UNCHANGED <<req, clt, seen, moVM, tag, tier, shared, sigvars>>

\* vsConnect without the mutex
VsConnectLock_NoMutex(i) ==
    /\ ~killed
    /\ pc[i] = "vsConnect"
    /\ lock' = i
    /\ Call(i, "vsConnect")
    /\ Goto(i, "vsc_check")
    /\ UNCHANGED <<req, locals, client, once, auths, installs, sigvars>>

\* vsConnect: lock.Lock()
VsConnectLock(i) ==
    /\ ~killed
    /\ pc[i] = "vsConnect"
    /\ lock = 0
    /\ lock' = i
    /\ Call(i, "vsConnect")
    /\ Goto(i, "vsc_check")
    /\ UNCHANGED <<req, locals, client, once, auths, installs, sigvars>>

\* vsConnect reconnecting when the cfg it is passed is not the session's
VsConnectCheck_CfgChanged(i) ==
    /\ ~killed
    /\ pc[i] = "vsc_check"
    /\ IF client = NoClient \/ client.cfg # cfg[i]
       THEN /\ Goto(i, "nc_govmomi")
            /\ Call(i, "newClient")
            /\ auths' = auths + 1
            /\ clt' = [clt EXCEPT ![i] = [NoClient EXCEPT !.by = i, !.cfg = cfg[i]]]
            /\ UNCHANGED <<lock, seen>>
       ELSE /\ Goto(i, "once")
            /\ lock' = 0
            /\ seen' = [seen EXCEPT ![i] = client]
            /\ UNCHANGED <<calls, auths, clt>>
    /\ UNCHANGED <<req, cfg, moVM, tag, tier, client, once, installs, sigvars>>

\* vsConnect: if client == nil { ... newClient ... } else return nil (unlocking)
VsConnectCheck(i) ==
    /\ ~killed
    /\ pc[i] = "vsc_check"
    /\ IF client = NoClient
       THEN /\ Goto(i, "nc_govmomi")
            /\ Call(i, "newClient")
            /\ auths' = auths + 1
            /\ clt' = [clt EXCEPT ![i] = [NoClient EXCEPT !.by = i, !.cfg = cfg[i]]]
            /\ UNCHANGED <<lock, seen>>
       ELSE /\ Goto(i, "once")
            /\ lock' = 0
            /\ seen' = [seen EXCEPT ![i] = client]
            /\ UNCHANGED <<calls, auths, clt>>
    /\ UNCHANGED <<req, cfg, moVM, tag, tier, client, once, installs, sigvars>>

\* vsConnect keeping what newClient had built when it failed
ConnectFailed_Partial(i, cause) ==
    /\ Return(i, StatusInternalServerError, "connecting to vSphere", cause)
    /\ client' = clt[i]
    /\ lock' = 0
    /\ clt' = [clt EXCEPT ![i] = NoClient]
    /\ cfg' = [cfg EXCEPT ![i] = NoCfg]

\* Handle going on to once.Do after vsConnect returned an error
ConnectFailed_Ignored(i, cause) ==
    /\ Goto(i, "once")
    /\ client' = client
    /\ lock' = 0
    /\ clt' = [clt EXCEPT ![i] = NoClient]
    /\ cfg' = cfg

\* vsConnect returning the error of newClient without unlocking
ConnectFailed_KeepsLock(i, cause) ==
    /\ Return(i, StatusInternalServerError, "connecting to vSphere", cause)
    /\ client' = client
    /\ lock' = lock
    /\ clt' = [clt EXCEPT ![i] = NoClient]
    /\ cfg' = [cfg EXCEPT ![i] = NoCfg]

\* newClient failed: vsConnect returns the error (unlocking), Handle responds.
ConnectFailed(i, cause) ==
    /\ Return(i, StatusInternalServerError, "connecting to vSphere", cause)
    /\ client' = client
    /\ lock' = 0
    /\ clt' = [clt EXCEPT ![i] = NoClient]
    /\ cfg' = [cfg EXCEPT ![i] = NoCfg]

\* newClient: govmomi.NewClient
NewClientGovmomi(i) ==
    /\ ~killed
    /\ pc[i] = "nc_govmomi"
    /\ \E ok \in BOOLEAN :
        IF ok
        THEN /\ clt' = [clt EXCEPT ![i].govmomi = TRUE]
             /\ Goto(i, "nc_rest")
             /\ UNCHANGED <<lock, cfg, client>>
        ELSE ConnectFailed(i, "connecting to govmomi api failed")
    /\ UNCHANGED <<req, seen, moVM, tag, tier, calls, once, auths, installs, sigvars>>

\* newClient: rest.NewClient and rest.Login
NewClientRestLogin(i) ==
    /\ ~killed
    /\ pc[i] = "nc_rest"
    /\ \E ok \in BOOLEAN :
        IF ok
        THEN /\ clt' = [clt EXCEPT ![i].rest = TRUE]
             /\ Goto(i, "nc_tagmgr")
             /\ UNCHANGED <<lock, cfg, client>>
        ELSE ConnectFailed(i, "log in to rest api failed")
    /\ UNCHANGED <<req, seen, moVM, tag, tier, calls, once, auths, installs, sigvars>>

\* newClient: tags.NewManager
NewClientTagMgr(i) ==
    /\ ~killed
    /\ pc[i] = "nc_tagmgr"
    /\ \E ok \in BOOLEAN :
        IF ok
        THEN /\ clt' = [clt EXCEPT ![i].tagMgr = TRUE]
             /\ Goto(i, "vsc_install")
             /\ UNCHANGED <<lock, cfg, client>>
        ELSE ConnectFailed(i, "unable to initialize tag manager")
    /\ UNCHANGED <<req, seen, moVM, tag, tier, calls, once, auths, installs, sigvars>>

\* vsConnect: client = c; return nil (unlocking)
VsConnectInstall(i) ==
    /\ ~killed
    /\ pc[i] = "vsc_install"
    /\ client' = clt[i]
    /\ installs' = installs + 1
    /\ seen' = [seen EXCEPT ![i] = clt[i]]
    /\ clt' = [clt EXCEPT ![i] = NoClient]
    /\ lock' = 0
    /\ Goto(i, "once")
    /\ UNCHANGED <<req, cfg, moVM, tag, tier, calls, once, auths, sigvars>>

\* go handleSignal(ctx) without the sync.Once around it
OnceDo_EveryTime(i) ==
    /\ ~killed
    /\ pc[i] = "once"
    /\ listener' = "start"
    /\ once' = TRUE
    /\ cfg' = [cfg EXCEPT ![i] = NoCfg]
    /\ Goto(i, "fetch")
    /\ UNCHANGED <<req, clt, seen, moVM, tag, tier, calls, lock, client, auths, installs,
                   sigCh, killed, logouts>>

\* once.Do(func() { go handleSignal(ctx) }); cfg is not used after vsConnect
OnceDo(i) ==
    /\ ~killed
    /\ pc[i] = "once"
    /\ IF once
       THEN listener' = listener
       ELSE listener' = "start"
    /\ once' = TRUE
    /\ cfg' = [cfg EXCEPT ![i] = NoCfg]
    /\ Goto(i, "fetch")
    /\ UNCHANGED <<req, clt, seen, moVM, tag, tier, calls, lock, client, auths, installs,
                   sigCh, killed, logouts>>

\* eventVmMoRef
eventVmMoRef(event) == [Type |-> event.Vm.Type, Value |-> event.Vm.Value]

\* moVirtualMachine: pc.Retrieve; an error is logged and the zero moVM returned.
MoVirtualMachine(i, got) ==
    /\ ~killed
    /\ pc[i] = "fetch"
    /\ Call(i, "Retrieve")
    /\ moVM' = [moVM EXCEPT ![i] = got]
    /\ Goto(i, "selectTag")
    /\ UNCHANGED <<req, cfg, clt, seen, tag, tier, shared, sigvars>>

\* the tag name selectTag computes
tagName(cat, vm) ==
    CASE cat = "config.hardware.numCPU" -> incCpuVal(vm.NumCPU)
      [] cat = "config.hardware.memoryMB" -> incMemVal(vm.MemoryMB)
      [] OTHER -> ""

\* selectTag dereferences moVM.Config in both cases of its switch.
selectTagPanics(cat, vm) ==
    cat \in {"config.hardware.numCPU", "config.hardware.memoryMB"} /\ ~vm.hasConfig

\* selectTag: tag name, GetTagsForCategory, findCatAndTagID
SelectTag(i) ==
    /\ ~killed
    /\ pc[i] = "selectTag"
    /\ IF selectTagPanics(catName(cloudEvt(i).Name), moVM[i])
       THEN /\ Goto(i, "panicked")
            /\ UNCHANGED <<tag, tier, calls>>
       ELSE /\ Call(i, "GetTagsForCategory")
            /\ tier' = [tier EXCEPT ![i] = tagName(catName(cloudEvt(i).Name), moVM[i])]
            /\ \E ok \in BOOLEAN :
                IF ok
                THEN /\ \E tagList \in TagLists(catName(cloudEvt(i).Name)) :
                          tag' = [tag EXCEPT ![i] =
                                    findCatAndTagID(tagList,
                                        tagName(catName(cloudEvt(i).Name), moVM[i]))]
                     /\ Goto(i, "attach")
                ELSE /\ Return(i, StatusInternalServerError,
                               "retrieving VM managed reference object", "GetTagsForCategory")
                     /\ tag' = tag
    /\ UNCHANGED <<req, cfg, clt, seen, moVM, shared, sigvars>>

\* client.tagMgr.AttachTag(ctx, tagID, vmMOR)
AttachTag(i) ==
    /\ ~killed
    /\ pc[i] = "attach"
    /\ Call(i, "AttachTag")
    /\ \E ok \in BOOLEAN :
        IF ok
        THEN Return(i, StatusOK, "was tagged with", "")
        ELSE Return(i, StatusInternalServerError, "tagging managed reference object",
                    "AttachTag")
    /\ UNCHANGED <<req, locals, shared, sigvars>>

\* ------------------------------------------------- handleSignal goroutine
\* signal.Notify(sigCh, syscall.SIGTERM, os.Interrupt)
HandleSignalNotify ==
    /\ ~killed
    /\ listener = "start"
    /\ listener' = "waiting"
    /\ UNCHANGED <<pc, req, locals, resp, calls, shared, sigCh, killed, logouts>>

\* s := <-sigCh
HandleSignalReceive ==
    /\ ~killed
    /\ listener = "waiting"
    /\ sigCh > 0
    /\ sigCh' = sigCh - 1
    /\ listener' = "logout_govmomi"
    /\ UNCHANGED <<pc, req, locals, resp, calls, shared, killed, logouts>>

\* client.logout: clt.govmomi.Logout; on error logout returns at once
LogoutGovmomi ==
    /\ ~killed
    /\ listener = "logout_govmomi"
    /\ \E ok \in BOOLEAN :
        /\ logouts' = Append(logouts, [session |-> "govmomi", ok |-> ok])
        /\ listener' = IF ok THEN "logout_rest" ELSE "returned"
    /\ UNCHANGED <<pc, req, locals, resp, calls, shared, sigCh, killed>>

\* client.logout: clt.rest.Logout
LogoutRest ==
    /\ ~killed
    /\ listener = "logout_rest"
    /\ \E ok \in BOOLEAN :
        /\ logouts' = Append(logouts, [session |-> "rest", ok |-> ok])
        /\ listener' = "returned"
    /\ UNCHANGED <<pc, req, locals, resp, calls, shared, sigCh, killed>>

\* ------------------------------------------------------------ environment
\* SIGTERM or os.Interrupt arrives. Once signal.Notify has run it is buffered in
\* sigCh (dropped when the buffer is full); before that the default action applies
\* and the process, with all its state, is gone.
Signal ==
    /\ ~killed
    /\ IF listener \in {"none", "start"}
       THEN /\ killed' = TRUE
            /\ pc' = [i \in Procs |-> "idle"]
            /\ req' = [i \in Procs |-> NoBody]
            /\ cfg' = [i \in Procs |-> NoCfg]
            /\ clt' = [i \in Procs |-> NoClient]
            /\ seen' = [i \in Procs |-> NoClient]
            /\ moVM' = [i \in Procs |-> NoConfigVM]
            /\ tag' = [i \in Procs |-> NoTag]
            /\ tier' = [i \in Procs |-> ""]
            /\ resp' = [i \in Procs |-> NoResp]
            /\ calls' = [i \in Procs |-> <<>>]
            /\ lock' = 0
            /\ client' = NoClient
            /\ once' = FALSE
            /\ listener' = "none"
            /\ auths' = 0
            /\ installs' = 0
            /\ UNCHANGED <<sigCh, logouts>>
       ELSE /\ sigCh' = IF sigCh < SigChCap THEN sigCh + 1 ELSE sigCh
            /\ UNCHANGED <<pc, req, locals, resp, calls, shared, listener, killed,
                           logouts>>

Next ==
    \/ \E i \in Procs : \E body \in Bodies : HandleParse(i, body)
    \/ \E i \in Procs : \E file \in SecretFiles : HandleLoadCfg(i, file)
    \/ \E i \in Procs : VsConnectLock(i)
    \/ \E i \in Procs : VsConnectCheck(i)
    \/ \E i \in Procs : NewClientGovmomi(i)
    \/ \E i \in Procs : NewClientRestLogin(i)
    \/ \E i \in Procs : NewClientTagMgr(i)
    \/ \E i \in Procs : VsConnectInstall(i)
    \/ \E i \in Procs : OnceDo(i)
    \/ \E i \in Procs : \E got \in HwConfigs : MoVirtualMachine(i, got)
    \/ \E i \in Procs : SelectTag(i)
    \/ \E i \in Procs : AttachTag(i)
    \/ HandleSignalNotify
    \/ HandleSignalReceive
    \/ LogoutGovmomi
    \/ LogoutRest
    \/ Signal

Spec == Init /\ [][Next]_vars

\* A single invocation, over every request body, secret file and VM record.
NextData ==
    \/ \E body \in AllBodies : HandleParse(1, body)
    \/ \E file \in AllSecretFiles : HandleLoadCfg(1, file)
    \/ VsConnectLock(1)
    \/ VsConnectCheck(1)
    \/ NewClientGovmomi(1)
    \/ NewClientRestLogin(1)
    \/ NewClientTagMgr(1)
    \/ VsConnectInstall(1)
    \/ OnceDo(1)
    \/ \E got \in AllHwConfigs : MoVirtualMachine(1, got)
    \/ SelectTag(1)
    \/ AttachTag(1)
    \/ HandleSignalNotify
    \/ HandleSignalReceive
    \/ LogoutGovmomi
    \/ LogoutRest
    \/ Signal

SpecData == Init /\ [][NextData]_vars

\* A single actionable invocation, over the hardware a fetched VM may report.
TierBodies ==
    {[json |-> TRUE, event |-> [Vm |-> ValidVm, Name |-> "VM CPU Usage", To |-> "red"]],
     [json |-> TRUE, event |-> [Vm |-> ValidVm, Name |-> "VM Memory Usage", To |-> "red"]]}

CpuCounts == 0..MaxCpuCount

\* each power of two, its successor and the last size below the next power
MemSizes == UNION {{Pow2(k), Pow2(k) + 1, Pow2(k + 1) - 1} : k \in 0..MaxMemExp}

TierHwConfigs ==
    {HwConfig(n, 1024) : n \in CpuCounts} \cup {HwConfig(1, m) : m \in MemSizes}

NextTier ==
    \/ \E body \in TierBodies : HandleParse(1, body)
    \/ \E file \in SecretFiles : HandleLoadCfg(1, file)
    \/ VsConnectLock(1)
    \/ VsConnectCheck(1)
    \/ NewClientGovmomi(1)
    \/ NewClientRestLogin(1)
    \/ NewClientTagMgr(1)
    \/ VsConnectInstall(1)
    \/ OnceDo(1)
    \/ \E got \in TierHwConfigs : MoVirtualMachine(1, got)
    \/ SelectTag(1)
    \/ AttachTag(1)
    \/ HandleSignalNotify
    \/ HandleSignalReceive
    \/ LogoutGovmomi
    \/ LogoutRest
    \/ Signal

SpecTier == Init /\ [][NextTier]_vars

\* ------------------------------------------------------------ properties
Has(i, what) == \E k \in DOMAIN calls[i] : calls[i][k] = what

Times(i, what) == Cardinality({k \in DOMAIN calls[i] : calls[i][k] = what})

InNewClient == {"nc_govmomi", "nc_rest", "nc_tagmgr", "vsc_install"}

\* vsConnect has returned nil to invocation i
ConnectOK(i) ==
    /\ Has(i, "vsConnect")
    /\ pc[i] \notin InNewClient \cup {"vsc_check"}
    /\ resp[i].stage # "connecting to vSphere"

ConnectErr(i) == pc[i] = "done" /\ resp[i].stage = "connecting to vSphere"

Complete(c) == c.govmomi /\ c.rest /\ c.tagMgr

\* C1 as stated: for any number of invocations calling vsConnect while no session
\* exists, exactly one authentication sequence (newClient) executes, at most one
\* session is ever installed, and every call returns observing that session.
C1_ExactlyOneAuth ==
    /\ auths <= 1
    /\ installs <= 1
    /\ \A i \in Procs :
        (Has(i, "vsConnect") /\ pc[i] \notin InNewClient \cup {"vsc_check"})
            => (seen[i] = client /\ client # NoClient)

\* C1 amended: at most one session is ever installed and exactly one authentication
\* sequence succeeds; authentication sequences run one at a time, every further one
\* follows a failed one (whose caller got the connection error) and none starts once
\* a session is installed; all calls that return success observe that one session.
C1_OneSession ==
    /\ installs <= 1
    /\ installs = (IF client = NoClient THEN 0 ELSE 1)
    /\ Cardinality({i \in Procs : pc[i] \in InNewClient}) <= 1
    /\ auths = installs + Cardinality({i \in Procs : ConnectErr(i)})
                        + Cardinality({i \in Procs : pc[i] \in InNewClient})
    /\ (\E i \in Procs : pc[i] \in InNewClient) => client = NoClient
    /\ \A i \in Procs : ConnectOK(i) => (seen[i] = client /\ Complete(client))
    /\ \A i \in Procs : ConnectErr(i) => seen[i] = NoClient

\* three invocations' worth of racing is not needed to see the case: one creates the
\* session (after another's attempt failed or not), another observes it
C1_Witness ==
    \E i, j \in Procs :
        /\ i # j
        /\ ConnectOK(i) /\ ConnectOK(j)
        /\ seen[i].by = i /\ seen[j] = seen[i]
        /\ Has(j, "vsConnect") /\ ~Has(j, "newClient")

\* C2: once a session is installed, a call of vsConnect returns nil with the
\* existing session and without any newClient call, whatever cfg it is passed.
C2_Reuse ==
    [][\A i \in Procs :
        (client # NoClient /\ pc[i] = "vsc_check" /\ pc'[i] # "vsc_check" /\ ~killed')
            => /\ pc'[i] = "once"
               /\ seen'[i] = client
               /\ client' = client
               /\ auths' = auths
               /\ calls'[i] = calls[i]
               /\ lock' = 0]_vars

\* an invocation holding other credentials than the session's has been handed the
\* existing session
C2_Witness ==
    \E i \in Procs :
        /\ pc[i] = "once"
        /\ seen[i] = client /\ client.by # i
        /\ cfg[i] # client.cfg
        /\ ~Has(i, "newClient")

\* C3: when a step of newClient fails, vsConnect returns the connection error and
\* client stays absent; client never holds a partially initialised vsClient.
C3_AllOrNothing ==
    [][/\ client' # NoClient => Complete(client')
       /\ \A i \in Procs : seen'[i] # NoClient => Complete(seen'[i])
       /\ \A i \in Procs :
            (pc[i] \in InNewClient /\ pc'[i] = "done")
                => /\ resp'[i].status = StatusInternalServerError
                   /\ resp'[i].stage = "connecting to vSphere"
                   /\ client = NoClient /\ client' = NoClient
                   /\ seen'[i] = NoClient
                   /\ lock' = 0]_vars

\* rest.Login failed after govmomi.NewClient had succeeded
C3_Witness ==
    \E i \in Procs :
        /\ ConnectErr(i)
        /\ resp[i].cause = "log in to rest api failed"
        /\ client = NoClient
        /\ lock = 0

\* C4 as stated: when the VM record carries no hardware configuration the
\* invocation ends with an internal-error response saying so, neither
\* GetTagsForCategory nor AttachTag is called, and the invocation does not crash.
C4_ConfigUnavailable ==
    \A i \in Procs :
        (Has(i, "Retrieve") /\ ~moVM[i].hasConfig)
            => /\ pc[i] # "panicked"
               /\ ~Has(i, "GetTagsForCategory")
               /\ ~Has(i, "AttachTag")
               /\ pc[i] = "done" => resp[i].status = StatusInternalServerError

\* GetTagsForCategory returned a list to invocation i
Resolved(i) ==
    Has(i, "GetTagsForCategory") /\ resp[i].stage # "retrieving VM managed reference object"

\* C5 as stated: when no label of the category has the computed tier name (empty
\* tag ID) the invocation ends with a success response and AttachTag is not called.
C5_NoTagNoAttach ==
    \A i \in Procs :
        (Resolved(i) /\ tag[i].tagID = "")
            => /\ ~Has(i, "AttachTag")
               /\ pc[i] = "done" => resp[i].status = StatusOK

\* the claims' own reading of a notification
WellFormed(b) ==
    /\ b.json
    /\ b.event.Vm.present /\ b.event.Vm.Value # ""
    /\ b.event.Name # "" /\ b.event.To # ""

Recognised == {"VM CPU Usage", "VM Memory Usage"}

Actionable(e) == e.To = "red" /\ e.Name \in Recognised

Untouched(i) ==
    /\ calls[i] = <<>>
    /\ cfg[i] = NoCfg /\ clt[i] = NoClient /\ seen[i] = NoClient
    /\ moVM[i] = NoConfigVM /\ tag[i] = NoTag /\ tier[i] = ""
    /\ lock # i

Started(i) == pc[i] # "idle"

Alone(i) == \A j \in Procs \ {i} : ~Started(j)

\* C6: a well-formed notification that is not actionable ends at once with a
\* success response; no config load, no vsConnect, no session, no fetch, no
\* resolve, no attach.
C6_NotActionable ==
    \A i \in Procs :
        (Started(i) /\ WellFormed(req[i]) /\ ~Actionable(req[i].event))
            => /\ pc[i] = "done"
               /\ resp[i].status = StatusOK
               /\ Untouched(i)
               /\ Alone(i) => (client = NoClient /\ auths = 0 /\ ~once)

C6_Witness ==
    \E i \in Procs :
        /\ pc[i] = "done"
        /\ WellFormed(req[i])
        /\ req[i].event.To = "red" /\ req[i].event.Name = "VM Disk Usage"
        /\ resp[i].status = StatusOK

LogoutsOf(session) == {k \in DOMAIN logouts : logouts[k].session = session}

PastOnce(i) == Has(i, "Retrieve") \/ pc[i] = "fetch"

\* C7: the logout sequence of handleSignal runs at most once, whatever the number
\* of invocations that reached once.Do and of signals delivered.
C7_LogoutOnce ==
    /\ Cardinality(LogoutsOf("govmomi")) <= 1
    /\ Cardinality(LogoutsOf("rest")) <= 1
    /\ listener \in {"none", "start", "waiting"} => logouts = <<>>

\* two invocations went through once.Do, the logout ran and signals kept coming
C7_Witness ==
    /\ listener = "returned"
    /\ logouts # <<>>
    /\ sigCh = SigChCap
    /\ \E i, j \in Procs : i # j /\ PastOnce(i) /\ PastOnce(j)

\* C8 as stated: when the shutdown runs it attempts the logout of both sessions;
\* a failed logout does not prevent the other from being attempted.
C8_BothLogouts ==
    listener = "returned" => (LogoutsOf("govmomi") # {} /\ LogoutsOf("rest") # {})

\* C9: a notification whose VM reference is absent or has an empty value, or whose
\* alarm name or new level is empty, ends with an internal-error response and no
\* later stage runs.
C9_Incomplete ==
    \A i \in Procs :
        (Started(i) /\ req[i].json /\ ~WellFormed(req[i]))
            => /\ pc[i] = "done"
               /\ resp[i].status = StatusInternalServerError
               /\ resp[i].stage = "parsing cloud event data"
               /\ Untouched(i)
               /\ Alone(i) => (client = NoClient /\ auths = 0 /\ ~once)

C9_Witness ==
    \E i \in Procs :
        /\ pc[i] = "done"
        /\ req[i].json
        /\ req[i].event.Vm.present /\ req[i].event.Vm.Value # ""
        /\ req[i].event.Name = "VM CPU Usage" /\ req[i].event.To = ""
        /\ resp[i].status = StatusInternalServerError

\* C10: isStorageInAlarm is true exactly when the new level is "red" and the alarm
\* name is "VM CPU Usage" or "VM Memory Usage": on every event, and so for every
\* validated notification Handle stops with "nothing to do" exactly when it is not.
C10_Actionable ==
    /\ \A e \in Events : isStorageInAlarm(e) <=> Actionable(e)
    /\ \A i \in Procs :
        (Started(i) /\ WellFormed(req[i]))
            => ((pc[i] = "done" /\ calls[i] = <<>> /\ resp[i].status = StatusOK)
                    <=> ~Actionable(req[i].event))

\* a red alarm with an unrecognised name was turned away, and so was a recognised
\* alarm at another level
C10_Witness ==
    \E i \in Procs :
        /\ pc[i] = "done" /\ calls[i] = <<>> /\ resp[i].status = StatusOK
        /\ req[i].event.Name = "VM Memory Usage" /\ req[i].event.To = "Red"

\* the tier names of the claims, written out: CpuTiers[t] is the decimal string
\* of t, MemTiers[k + 1] that of 2^k
CpuTiers == <<"1", "2", "3", "4">>

MemTiers ==
    <<"1", "2", "4", "8", "16", "32", "64", "128", "256", "512", "1024", "2048",
      "4096", "8192", "16384", "32768", "65536", "131072", "262144", "524288",
      "1048576", "2097152", "4194304", "8388608">>

Min(a, b) == IF a < b THEN a ELSE b

\* selectTag has computed the tier of invocation i for the alarm named name
Tiered(i, name) == Has(i, "GetTagsForCategory") /\ req[i].event.Name = name

\* C11: for every CPU count n >= 0 incCpuVal(n) is the decimal string of
\* min(n+1, 4): never a tier above 4, and never one below the current count unless
\* the count exceeds 4.
C11_NextCpuTier ==
    \A i \in Procs :
        Tiered(i, "VM CPU Usage")
            => /\ moVM[i].NumCPU >= 0
               /\ tier[i] = CpuTiers[Min(moVM[i].NumCPU + 1, 4)]
               /\ \E t \in 1..4 :
                    /\ tier[i] = CpuTiers[t]
                    /\ moVM[i].NumCPU <= 4 => t >= moVM[i].NumCPU

\* a VM with more than four CPUs was given tier "4"
C11_Witness ==
    \E i \in Procs :
        /\ Tiered(i, "VM CPU Usage")
        /\ moVM[i].NumCPU > 4
        /\ tier[i] = "4"
        /\ pc[i] = "attach"

\* floor(log2(m)) as the claims define it, for m >= 1
FloorLog2(m) == CHOOSE k \in 0..31 : Pow2(k) <= m /\ m < 2 * Pow2(k)

\* C12: for every positive memory size m incMemVal(m) is the decimal string of
\* 2^min(floor(log2(m))+1, 23): 2^k with k < 23 yields 2^(k+1), and any size at
\* or above 2^23 yields 2^23.
C12_NextMemoryTier ==
    \A i \in Procs :
        Tiered(i, "VM Memory Usage")
            => /\ moVM[i].MemoryMB >= 1
               /\ tier[i] = MemTiers[Min(FloorLog2(moVM[i].MemoryMB) + 1, 23) + 1]
               /\ \A k \in 0..22 : moVM[i].MemoryMB = Pow2(k) => tier[i] = MemTiers[k + 2]
               /\ moVM[i].MemoryMB >= Pow2(23) => tier[i] = "8388608"

\* a VM above the ceiling was given the ceiling
C12_Witness ==
    \E i \in Procs :
        /\ Tiered(i, "VM Memory Usage")
        /\ moVM[i].MemoryMB > Pow2(23)
        /\ tier[i] = "8388608"
        /\ pc[i] = "attach"

\* C13 as stated: the connection parameters an invocation loads take effect for
\* it: when vsConnect has returned nil to an invocation that runs after all others
\* have ended, the session it works over was authenticated with the parameters it
\* loaded, so credentials rotated since the earlier invocation are in use.
C13_RotatedTakeEffect ==
    \A i \in Procs :
        (pc[i] = "once" /\ \A j \in Procs \ {i} : pc[j] \in {"idle", "done"})
            => seen[i].cfg = cfg[i]

\* the calls of an invocation that went through every stage, in order; newClient
\* only when the invocation had to create the session
FullRuns ==
    {<<"loadTomlCfg", "vsConnect", "Retrieve", "GetTagsForCategory", "AttachTag">>,
     <<"loadTomlCfg", "vsConnect", "newClient", "Retrieve", "GetTagsForCategory",
       "AttachTag">>}

CategoryOf(name) ==
    IF name = "VM CPU Usage" THEN "config.hardware.numCPU" ELSE "config.hardware.memoryMB"

NextTierOf(name, vm) ==
    IF name = "VM CPU Usage"
    THEN CpuTiers[Min(vm.NumCPU + 1, 4)]
    ELSE MemTiers[Min(FloorLog2(vm.MemoryMB) + 1, 23) + 1]

\* C14 as stated: an invocation that ends with the "tagged" response has called
\* AttachTag exactly once, over the shared session, after the load, vsConnect, the
\* fetch and the tag resolution in that order, for a validated actionable
\* notification, and the tag attached is the label of the alarm's category whose
\* name is the next tier of the VM's current value.
C14_TaggedNextTier ==
    \A i \in Procs :
        (pc[i] = "done" /\ resp[i].stage = "was tagged with")
            => /\ resp[i].status = StatusOK
               /\ calls[i] \in FullRuns
               /\ WellFormed(req[i]) /\ Actionable(req[i].event)
               /\ seen[i] = client /\ Complete(client)
               /\ moVM[i].hasConfig
               /\ tag[i] = [catID |-> "urn:category:" \o CategoryOf(req[i].event.Name),
                            tagID |-> "urn:tag:" \o NextTierOf(req[i].event.Name, moVM[i])]

\* C15 as stated, in the form a finite run refutes: an invocation that has started
\* never ends without a response, a response has status 200 or 500 and there is
\* one of them, and an invocation waiting for the lock waits for a holder that is
\* inside vsConnect and will release it.
C15_AlwaysResponds ==
    \A i \in Procs :
        Started(i)
            => /\ pc[i] # "panicked"
               /\ pc[i] = "done" <=> resp[i] # NoResp
               /\ pc[i] = "done" =>
                    resp[i].status \in {StatusOK, StatusInternalServerError}
               /\ (pc[i] = "vsConnect" /\ lock # 0) =>
                    (lock # i /\ pc[lock] \in InNewClient \cup {"vsc_check"})

Collaborators == {"loadTomlCfg", "newClient", "Retrieve", "GetTagsForCategory", "AttachTag"}

\* C16 as stated: within one invocation each collaborator operation is invoked at
\* most once, and after one of them has failed no later stage is invoked and the
\* response has internal-error status; here for the property retrieval.
C16_FailureStops ==
    \A i \in Procs :
        /\ \A what \in Collaborators : Times(i, what) <= 1
        /\ (Has(i, "Retrieve") /\ moVM[i].err)
            => /\ pc[i] # "panicked"
               /\ calls[i][Len(calls[i])] = "Retrieve"
               /\ pc[i] = "done" => resp[i].status = StatusInternalServerError

Categories == {"config.hardware.numCPU", "config.hardware.memoryMB"}

\* C17: whenever selectTag runs, the category derived from the alarm name is the
\* CPU or the memory category, never the empty one: the label list is not
\* requested for an empty category and the tier name looked up is not empty.
C17_CategoryKnown ==
    \A i \in Procs :
        (pc[i] \in {"selectTag", "attach", "panicked"} \/ Has(i, "GetTagsForCategory"))
            => /\ catName(cloudEvt(i).Name) \in Categories
               /\ Has(i, "GetTagsForCategory") => tier[i] # ""
               /\ pc[i] = "attach" => tag[i].catID \in {"", "urn:category:config.hardware.numCPU",
                                                        "urn:category:config.hardware.memoryMB"}

\* the label list was requested for the memory category with tier "8192"
C17_Witness ==
    \E i \in Procs :
        /\ Has(i, "GetTagsForCategory")
        /\ req[i].event.Name = "VM Memory Usage"
        /\ tier[i] = "8192"
        /\ tag[i].catID = "urn:category:config.hardware.memoryMB"

Usable(c) == c.Server # "" /\ c.User # "" /\ c.Password # ""

LoadErrors ==
    {"loading vcconfig.toml", "unmarshalling vcconfig.toml",
     "required field(s) missing in config"}

\* C18: when loading or validating the connection parameters fails (missing
\* file, unparsable content, or empty server, user or password) the invocation
\* ends with an internal-error response and the session is not touched: no
\* vsConnect call, the lock not taken, client unchanged; and only parameters with
\* all three fields set are passed on to vsConnect.
C18_LoadFailureFrame ==
    [][\A i \in Procs :
        /\ (pc[i] = "loadcfg" /\ pc'[i] = "vsConnect") => Usable(cfg'[i])
        /\ (pc[i] = "loadcfg" /\ pc'[i] = "done")
            => /\ resp'[i].status = StatusInternalServerError
               /\ resp'[i].stage = "loading of vcconfig"
               /\ resp'[i].cause \in LoadErrors
               /\ calls'[i] = <<"loadTomlCfg">>
               /\ lock' = lock /\ lock # i
               /\ client' = client
               /\ seen'[i] = NoClient /\ clt'[i] = NoClient
               /\ auths' = auths /\ installs' = installs /\ once' = once
               /\ listener' = listener]_vars

\* an invocation was turned away for an incomplete config while a session built
\* by another invocation was installed
C18_Witness ==
    \E i \in Procs :
        /\ pc[i] = "done"
        /\ resp[i].stage = "loading of vcconfig"
        /\ resp[i].cause = "required field(s) missing in config"
        /\ calls[i] = <<"loadTomlCfg">>
        /\ client # NoClient /\ client.by # i

LoggingOut == {"logout_govmomi", "logout_rest", "returned"}

\* C19: handleSignal is started only by an invocation to which vsConnect has
\* returned nil, so whenever the listener exists, and whenever it performs its
\* logout, a complete session is installed and no newClient is under way.
C19_ListenerAfterSession ==
    /\ listener # "none"
        => /\ once
           /\ client # NoClient /\ Complete(client)
           /\ \E i \in Procs : PastOnce(i) /\ seen[i] = client
    /\ once => client # NoClient
    /\ listener \in LoggingOut
        => /\ client # NoClient /\ Complete(client)
           /\ \A i \in Procs : pc[i] \notin InNewClient
    /\ logouts # <<>> => listener \in LoggingOut

\* the logout is under way while another invocation is inside vsConnect
C19_Witness ==
    /\ listener = "logout_rest"
    /\ \E i \in Procs : pc[i] = "vsc_check" /\ lock = i
    /\ client # NoClient

\* C20: a failed vsConnect releases the lock and leaves client absent, so it
\* does not block or poison other invocations: the lock is only held by an
\* invocation inside vsConnect, a waiting invocation can take the free lock, it
\* makes its own newClient attempt when it finds no session, and a session it
\* installs is the one every successful call observes.
C20_FailedConnectFrees ==
    /\ \A i \in Procs :
        ConnectErr(i) => (lock # i /\ seen[i] = NoClient /\ clt[i] = NoClient)
    /\ lock # 0 => pc[lock] \in InNewClient \cup {"vsc_check"}
    /\ (\E i \in Procs : ConnectErr(i)) /\ installs = 0 => client = NoClient
    /\ \A j \in Procs :
        (pc[j] = "vsConnect" /\ lock = 0 /\ ~killed) => ENABLED VsConnectLock(j)
    /\ \A j \in Procs :
        (pc[j] = "vsc_check" /\ client = NoClient /\ ~killed)
            => /\ lock = j
               /\ ENABLED (VsConnectCheck(j) /\ pc'[j] = "nc_govmomi")
    /\ \A j \in Procs :
        (pc[j] = "vsc_install" /\ ~killed)
            => ENABLED (VsConnectInstall(j) /\ client' = clt[j])
    /\ \A j \in Procs : ConnectOK(j) => (seen[j] = client /\ Complete(client))

\* one invocation's attempt failed, another's succeeded afterwards or before and
\* its session is installed
C20_Witness ==
    \E i, j \in Procs :
        /\ i # j
        /\ ConnectErr(i)
        /\ ConnectOK(j) /\ Has(j, "newClient")
        /\ seen[j].by = j /\ client = seen[j]
        /\ auths = 2

====
